---- MODULE Spec2Model ----
(***************************************************************************)
(* A model of tk-multi-breakdown2: the BreakdownManager facade             *)
(* (python/tk_multi_breakdown2/api/manager.py), the GetPublishedFiles hook *)
(* (hooks/get_published_files.py) and the host scene operation hooks       *)
(* (hooks/tk-*_scene_operations.py).                                       *)
(*                                                                         *)
(* Python values are records carrying a "type" field, so that values of    *)
(* different Python types can be compared: None, False, {} and []          *)
(* are distinct falsy values, a ShotGrid entity dictionary carries         *)
(* its entity type, a str that holds a file path carries its separator.    *)
(***************************************************************************)
EXTENDS Integers, Sequences, FiniteSets, TLC

VARIABLES
    host,           \* the engine whose hook_scene_operations is configured
    os_sep,         \* os.path.sep of the platform the session runs on
    catalog,        \* the PublishedFile entities of the ShotGrid site
    scene,          \* the host scene: node name -> file path held by the node
    scene_objects,  \* the caller's list of scene object dictionaries
    file_items,     \* the caller's list of FileItem objects
    call,           \* the most recent facade call: arguments, outcome, queries
    heap,           \* the objects whose identity is tracked, by address
    on_references_changed_cb,  \* the VRED hook's _on_references_changed_cb
    referencesChanged,         \* the slots connected to vrReferenceService.referencesChanged
    site_down       \* TRUE while requests to the ShotGrid site fail

\* The objects that only the specifications tracking them change.
objects == <<heap, on_references_changed_cb, referencesChanged, site_down>>

vars == <<host, os_sep, catalog, scene, scene_objects, file_items, call, objects>>

----------------------------------------------------------------------------
(* Bounds of the model.                                                    *)

MaxVersion == 2     \* version numbers published per identity group
MaxCatalog == 2     \* PublishedFile entities on the site
NumNodes == 1       \* nodes of the host scene
MaxBatch == 2       \* items a caller of the lookups holds
MaxRecords == 3     \* PublishedFile entities of a site whose order is queried
MaxCreated == 2     \* creation dates per version number
MaxScanned == 2     \* scene objects of a scan whose dictionaries are tracked
MaxHeap == 8        \* dictionary objects allocated in a session that tracks them
MaxReferences == 3  \* scene objects of a scan result given to the path lookup
MaxRegistered == 3  \* scene change callbacks registered in a session

----------------------------------------------------------------------------
(* Python values.                                                          *)

None == [type |-> "None"]
PyFalse == [type |-> "bool", value |-> FALSE]
PyTrue == [type |-> "bool", value |-> TRUE]
EmptyDict == [type |-> "dict", keys |-> {}]
List(items) == [type |-> "list", items |-> items]
EmptyList == List(<<>>)
\* A key that a dictionary does not hold.
Absent == [type |-> "absent"]

\* bool(v) of Python: None, False, "" and empty containers are falsy.
Truthy(v) ==
    CASE v.type = "None" -> FALSE
      [] v.type = "bool" -> v.value
      [] v.type = "dict" -> v.keys # {}
      [] v.type = "list" -> v.items # <<>>
      [] v.type = "str" -> v.file # ""
      [] OTHER -> TRUE

\* d.get(key) of Python for a key whose value the model holds in v.
DictGet(v) == IF v = Absent THEN None ELSE v

\* A str holding a file path: its separator character and the rest.
Str(sep, file) == [type |-> "str", sep |-> sep, file |-> file]

\* s.replace(old, new) for a path str and two separator characters.
Replace(s, old, new) == IF s.sep = old THEN [s EXCEPT !.sep = new] ELSE s

\* os.path.normpath(s): on Windows every "/" becomes "\\"; on POSIX a path
\* without redundant separators is returned as it is.
NormPath(s, sep) == IF sep = "\\" THEN Replace(s, "/", "\\") ELSE s

Link(t, i) == [type |-> t, id |-> i]

RangeOf(s) == {s[i] : i \in DOMAIN s}

----------------------------------------------------------------------------
(* ShotGrid PublishedFile entities.                                        *)

Projects == {Link("Project", 1), Link("Project", 2)}
Entities == {Link("Shot", 1), Link("Shot", 2)}
Tasks == {None, Link("Task", 1), Link("Task", 2)}
Names == {"a", "b"}
PublishedFileTypes == {Link("PublishedFileType", 1), Link("PublishedFileType", 2)}

IdentityFields == <<"project", "entity", "task", "name", "published_file_type">>

PublishedFile(id, project, entity, task, name, pft, version, created, path) ==
    [type |-> "PublishedFile", id |-> id, project |-> project, entity |-> entity,
     task |-> task, name |-> name, published_file_type |-> pft,
     version_number |-> version, created_at |-> created, path |-> path]

\* The keys of an sg_data dictionary, as list(item.sg_data.keys()) gives them.
SgDataKeys ==
    <<"type", "id", "project", "entity", "task", "name", "published_file_type",
      "version_number", "created_at", "path">>

SameIdentity(r, s) == \A i \in DOMAIN IdentityFields : r[IdentityFields[i]] = s[IdentityFields[i]]

\* The "path" field of a PublishedFile: a dictionary holding the local path.
PathDict(local_path) == [type |-> "dict", keys |-> {"local_path"}, local_path |-> local_path]

----------------------------------------------------------------------------
(* The ShotGrid query language used by the hooks: a filter is a condition  *)
(* [field, relation, values] or a group {"filter_operator", "filters"}; a  *)
(* list of filters is their conjunction.                                   *)

Cond(field, relation, values) ==
    [kind |-> "cond", field |-> field, relation |-> relation, values |-> values]
Group(operator, filters) ==
    [kind |-> "group", filter_operator |-> operator, filters |-> filters]

\* Whether the entity r satisfies the filter f.
RECURSIVE Matches(_, _)
Matches(f, r) ==
    IF f.kind = "cond"
    THEN IF f.relation = "is"
         THEN r[f.field] = f.values[1]
         ELSE r[f.field] \in RangeOf(f.values)
    ELSE IF f.filter_operator = "any"
         THEN \E i \in DOMAIN f.filters : Matches(f.filters[i], r)
         ELSE \A i \in DOMAIN f.filters : Matches(f.filters[i], r)

MatchesAll(filters, r) == \A i \in DOMAIN filters : Matches(filters[i], r)

OrderKey(field_name, direction) == [field_name |-> field_name, direction |-> direction]

\* Whether r sorts strictly before s under the order (a list of keys).
RECURSIVE Before(_, _, _)
Before(r, s, order) ==
    IF order = <<>> THEN FALSE
    ELSE LET k == Head(order)
             a == r[k.field_name]
             b == s[k.field_name]
         IN IF a = b THEN Before(r, s, Tail(order))
            ELSE IF k.direction = "desc" THEN a > b ELSE a < b

\* The lists holding each entity of S once, in an order the keys allow.
SortedLists(S, order) ==
    {l \in [1..Cardinality(S) -> S] :
        /\ \A i, j \in DOMAIN l : i # j => l[i] # l[j]
        /\ \A i, j \in DOMAIN l : i < j => ~Before(l[j], l[i], order)}

Query(method, filters, fields, order) ==
    [method |-> method, entity_type |-> "PublishedFile", filters |-> filters,
     fields |-> fields, order |-> order]

\* shotgun.find: the possible results of a query against the entities in cat.
ShotgunFind(cat, q) ==
    {List(l) : l \in SortedLists({r \in cat : MatchesAll(q.filters, r)}, q.order)}

\* shotgun.find_one: the first entity of a possible result of find, or None.
ShotgunFindOne(cat, q) ==
    LET found == {r \in cat : MatchesAll(q.filters, r)}
    IN IF found = {} THEN {None}
       ELSE {r \in found : \A s \in found : ~Before(s, r, q.order)}

\* The background task id that ShotgunDataRetriever.execute_find* returns.
TaskId(q) == [type |-> "task_id", query |-> q]

\* What the data retriever delivers for a task id once the background task
\* has run: the possible results of its query against the entities in cat.
Resolved(task_id, cat) ==
    IF task_id.query.method = "execute_find"
    THEN ShotgunFind(cat, task_id.query)
    ELSE ShotgunFindOne(cat, task_id.query)

----------------------------------------------------------------------------
(* hooks/get_published_files.py                                            *)

\* The values of the field in the sg_data of the items, in their order.
Values(items, field) == [i \in DOMAIN items |-> items[i].sg_data[field]]

HasTask(item) == Truthy(item.sg_data.task)
HasNoTask(item) == ~Truthy(item.sg_data.task)

\* The items that have a task, and those that have none.
WithTask(items) == SelectSeq(items, HasTask)
WithoutTask(items) == SelectSeq(items, HasNoTask)

\* The batch filters as they would be with one "in" condition per field and
\* no group for the items without a task.
BatchFiltersFlat(items) ==
    <<Cond("name", "in", Values(items, "name")),
      Cond("published_file_type", "in", Values(items, "published_file_type")),
      Cond("task", "in", Values(WithTask(items), "task")),
      Cond("entity", "in", Values(WithoutTask(items), "entity"))>>

\* The batch filters as they would be if a batch holding a task were matched
\* against the tasks alone.
BatchFiltersTaskOnly(items) ==
    LET entities == Values(WithoutTask(items), "entity")
        tasks == Values(WithTask(items), "task")
        filters == <<Cond("name", "in", Values(items, "name")),
                     Cond("published_file_type", "in",
                          Values(items, "published_file_type"))>>
    IN IF tasks # <<>>
       THEN Append(filters, Cond("task", "in", tasks))
       ELSE filters \o <<Cond("entity", "in", entities), Cond("task", "is", <<None>>)>>

\* The batch filters as they would be if the entities of the items without a
\* task were matched whatever the task of the Published File.
BatchFiltersAnyTask(items) ==
    LET entities == Values(WithoutTask(items), "entity")
        tasks == Values(WithTask(items), "task")
        filters == <<Cond("name", "in", Values(items, "name")),
                     Cond("published_file_type", "in",
                          Values(items, "published_file_type"))>>
    IN IF tasks # <<>>
       THEN IF entities # <<>>
            THEN Append(filters,
                        Group("any", <<Cond("task", "in", tasks),
                                       Cond("entity", "in", entities)>>))
            ELSE Append(filters, Cond("task", "in", tasks))
       ELSE Append(filters, Cond("entity", "in", entities))

\* get_published_files_for_items: the filters built for a non-empty batch.
BatchFilters(items) ==
    LET entities == Values(WithoutTask(items), "entity")
        names == Values(items, "name")
        tasks == Values(WithTask(items), "task")
        pf_types == Values(items, "published_file_type")
        filters == <<Cond("name", "in", names),
                     Cond("published_file_type", "in", pf_types)>>
    IN IF tasks # <<>>
       THEN IF entities # <<>>
            THEN Append(filters,
                        Group("any",
                              <<Cond("task", "in", tasks),
                                Group("all", <<Cond("entity", "in", entities),
                                               Cond("task", "is", <<None>>)>>)>>))
            ELSE Append(filters, Cond("task", "in", tasks))
       ELSE filters \o <<Cond("entity", "in", entities), Cond("task", "is", <<None>>)>>

\* The order as it would be without the creation date.
VersionOrderVersionOnly == <<OrderKey("version_number", "desc")>>

\* Highest version first or latest one.
VersionOrder == <<OrderKey("version_number", "desc"), OrderKey("created_at", "desc")>>

QueryFields(sg_data) == SgDataKeys \o <<"version_number", "path">>

\* The filters for one item as they would be if the task were left out.
LatestFiltersNoTask(item) ==
    <<Cond("name", "is", <<item.sg_data.name>>),
      Cond("published_file_type", "is", <<item.sg_data.published_file_type>>),
      Cond("entity", "is", <<item.sg_data.entity>>)>>

\* The filters for one item as they would be if an item without a task were
\* matched on its entity whatever the task of the Published File.
LatestFiltersAnyTask(item) ==
    LET filters == <<Cond("name", "is", <<item.sg_data.name>>),
                     Cond("published_file_type", "is", <<item.sg_data.published_file_type>>)>>
    IN IF Truthy(item.sg_data.task)
       THEN Append(filters, Cond("task", "is", <<item.sg_data.task>>))
       ELSE Append(filters, Cond("entity", "is", <<item.sg_data.entity>>))

\* get_latest_published_file: the filters built for one item.
LatestFilters(item) ==
    LET filters == <<Cond("name", "is", <<item.sg_data.name>>),
                     Cond("published_file_type", "is", <<item.sg_data.published_file_type>>)>>
    IN IF Truthy(item.sg_data.task)
       THEN Append(filters, Cond("task", "is", <<item.sg_data.task>>))
       ELSE filters \o <<Cond("entity", "is", <<item.sg_data.entity>>),
                         Cond("task", "is", <<None>>)>>

\* The data retriever argument: None, or a ShotgunDataRetriever object.
DataRetriever == [type |-> "ShotgunDataRetriever"]

\* What a hook or facade method does: the value it returns and the queries
\* it issued to ShotGrid, in order.
Outcome(ret, issued) == [ret |-> ret, issued |-> issued]

\* get_published_files_for_items of the hook as it would be if the
\* asynchronous query were ordered by the version number alone.
HookGetPublishedFilesForItemsAsyncOrder(items, data_retriever, cat) ==
    IF items = <<>> THEN {Outcome(EmptyDict, <<>>)}
    ELSE LET filters == BatchFilters(items)
             fields == QueryFields(items[1].sg_data)
         IN IF Truthy(data_retriever)
            THEN LET q == Query("execute_find", filters, fields, VersionOrderVersionOnly)
                 IN {Outcome(TaskId(q), <<q>>)}
            ELSE LET q == Query("find", filters, fields, VersionOrder)
                 IN {Outcome(found, <<q>>) : found \in ShotgunFind(cat, q)}

\* get_published_files_for_items(items, data_retriever): its possible outcomes.
HookGetPublishedFilesForItems(items, data_retriever, cat) ==
    IF items = <<>> THEN {Outcome(EmptyDict, <<>>)}
    ELSE LET filters == BatchFilters(items)
             fields == QueryFields(items[1].sg_data)
         IN IF Truthy(data_retriever)
            THEN LET q == Query("execute_find", filters, fields, VersionOrder)
                 IN {Outcome(TaskId(q), <<q>>)}
            ELSE LET q == Query("find", filters, fields, VersionOrder)
                 IN {Outcome(found, <<q>>) : found \in ShotgunFind(cat, q)}

\* get_latest_published_file of the hook as it would be if the synchronous
\* query were issued before the data retriever is looked at.
HookGetLatestPublishedFileBoth(item, data_retriever, cat) ==
    LET filters == LatestFilters(item)
        fields == QueryFields(item.sg_data)
        q == Query("find_one", filters, fields, VersionOrder)
    IN IF Truthy(data_retriever)
       THEN LET a == Query("execute_find_one", filters, fields, VersionOrder)
            IN {Outcome(TaskId(a), <<q, a>>)}
       ELSE {Outcome(found, <<q>>) : found \in ShotgunFindOne(cat, q)}

\* get_latest_published_file(item, data_retriever): its possible outcomes.
HookGetLatestPublishedFile(item, data_retriever, cat) ==
    LET filters == LatestFilters(item)
        fields == QueryFields(item.sg_data)
    IN IF Truthy(data_retriever)
       THEN LET q == Query("execute_find_one", filters, fields, VersionOrder)
            IN {Outcome(TaskId(q), <<q>>)}
       ELSE LET q == Query("find_one", filters, fields, VersionOrder)
            IN {Outcome(found, <<q>>) : found \in ShotgunFindOne(cat, q)}

\* The entities of cat published at the path.
PublishedAt(cat, path) ==
    {r \in cat : Truthy(r.path) /\ r.path.local_path = path}

\* sgtk.util.find_publish: the query it issues for a list of paths.
FindPublishQuery(file_paths) ==
    Query("find_publish", <<Cond("path", "in", file_paths)>>, <<>>, <<>>)

\* get_published_files_for_items_data as it would be without the test for
\* an empty list.
HookGetPublishedFilesForItemsDataNoGuard(items_data, cat) ==
    LET file_paths == [i \in DOMAIN items_data |-> items_data[i].path]
        found(o) == PublishedAt(cat, o.path) # {}
        publish(o) == CHOOSE r \in PublishedAt(cat, o.path) :
                          \A s \in PublishedAt(cat, o.path) : s.id <= r.id
        updated == [i \in DOMAIN items_data |->
                       IF found(items_data[i])
                       THEN [items_data[i] EXCEPT !.sg_data = publish(items_data[i])]
                       ELSE items_data[i]]
    IN [items_data |-> updated,
        ret |-> List(SelectSeq(updated, found)),
        issued |-> <<FindPublishQuery(file_paths)>>]

\* get_published_files_for_items_data(items_data, fields): the items data
\* after the call (a matched one holds its Published File under "sg_data"),
\* the returned list and the queries issued.
HookGetPublishedFilesForItemsData(items_data, cat) ==
    IF items_data = <<>>
    THEN [items_data |-> items_data, ret |-> EmptyList, issued |-> <<>>]
    ELSE LET file_paths == [i \in DOMAIN items_data |-> items_data[i].path]
             found(o) == PublishedAt(cat, o.path) # {}
             publish(o) == CHOOSE r \in PublishedAt(cat, o.path) :
                               \A s \in PublishedAt(cat, o.path) : s.id <= r.id
             updated == [i \in DOMAIN items_data |->
                            IF found(items_data[i])
                            THEN [items_data[i] EXCEPT !.sg_data = publish(items_data[i])]
                            ELSE items_data[i]]
         IN [items_data |-> updated,
             ret |-> List(SelectSeq(updated, found)),
             issued |-> <<FindPublishQuery(file_paths)>>]

----------------------------------------------------------------------------
(* The host scene and hook_scene_operations (hooks/tk-*_scene_operations). *)

Hosts == {"tk-houdini", "tk-nuke", "tk-vred"}

Nodes == 1..NumNodes
NodeName(n) == "node" \o ToString(n)
NodeIndex(node_name) == CHOOSE n \in Nodes : NodeName(n) = node_name

\* The node types a scan of the host reports, in the order it reports them.
ScannedNodeTypes(h) ==
    CASE h = "tk-houdini" -> <<"alembic">>
      [] h = "tk-nuke" -> <<"Read", "ReadGeo2", "Camera2">>
      [] h = "tk-vred" -> <<"smart_reference", "source_reference">>

\* The type of node n in the scene of host h.
NodeType(h, n) == ScannedNodeTypes(h)[((n - 1) % Len(ScannedNodeTypes(h))) + 1]

SceneObject(node_name, node_type, path, extra_data) ==
    [node_name |-> node_name, node_type |-> node_type, path |-> path,
     extra_data |-> extra_data, sg_data |-> Absent]

NodeIdData(n) == [type |-> "dict", keys |-> {"node_id"}, node_id |-> n]

\* Flatten a list of lists.
RECURSIVE Concat(_)
Concat(lists) == IF lists = <<>> THEN <<>> ELSE Head(lists) \o Concat(Tail(lists))

NodesOfType(h, t) == SelectSeq([n \in Nodes |-> n], LAMBDA n : NodeType(h, n) = t)

\* scan_scene of the Houdini hook: one item per alembic node.
HoudiniScanScene(sc, sep) ==
    LET alembic_nodes == NodesOfType("tk-houdini", "alembic")
    IN [i \in DOMAIN alembic_nodes |->
           SceneObject(NodeName(alembic_nodes[i]), "alembic",
                       NormPath(sc[alembic_nodes[i]], sep), Absent)]

\* scan_scene of the Nuke hook (neither Nuke Studio nor Hiero): the Read
\* nodes, then the ReadGeo2 nodes, then the Camera2 nodes.
NukeScanScene(sc, sep) ==
    LET of(t) == LET ns == NodesOfType("tk-nuke", t)
                 IN [i \in DOMAIN ns |->
                        SceneObject(NodeName(ns[i]), t, Replace(sc[ns[i]], "/", sep), Absent)]
    IN Concat(<<of("Read"), of("ReadGeo2"), of("Camera2")>>)

\* scan_scene of the VRED hook: the top references that have a path.
VredScanScene(sc) ==
    LET refs == SelectSeq([n \in Nodes |-> n], LAMBDA n : Truthy(sc[n]))
    IN [i \in DOMAIN refs |->
           SceneObject(NodeName(refs[i]), NodeType("tk-vred", refs[i]), sc[refs[i]],
                       NodeIdData(refs[i]))]

HookScanScene(h, sc, sep) ==
    CASE h = "tk-houdini" -> HoudiniScanScene(sc, sep)
      [] h = "tk-nuke" -> NukeScanScene(sc, sep)
      [] h = "tk-vred" -> VredScanScene(sc)

\* What update(item) of a scene operations hook does: the value it returns,
\* the exception it raises ("" when none) and the scene it leaves.
Updated(ret, raised, sc) == [ret |-> ret, raised |-> raised, scene |-> sc]

\* update of the Houdini hook.
HoudiniUpdate(item, sc) ==
    LET node_name == item.node_name
        node_type == item.node_type
        sg_data == item.sg_data
    IN IF ~Truthy(sg_data) THEN Updated(PyFalse, "", sc)
       ELSE IF sg_data.path = None
       THEN \* sg_data.get("path", {}) is None: None has no attribute "get"
            Updated(None, "AttributeError", sc)
       ELSE IF ~Truthy(sg_data.path.local_path) THEN Updated(PyFalse, "", sc)
       ELSE LET path == Replace(sg_data.path.local_path, "\\", "/")
            IN IF node_type = "alembic"
               THEN Updated(path, "", [sc EXCEPT ![NodeIndex(node_name)] = path])
               ELSE Updated(PyFalse, "", sc)

\* update of the Nuke hook: the name sg_data is read (line 124) and never
\* bound, which raises NameError before any node is touched.
NukeUpdate(item, sc) == Updated(None, "NameError", sc)

\* update of the VRED hook: the name sg_data is read (line 111) and never
\* bound, which raises NameError before any node is touched.
VredUpdate(item, sc) == Updated(None, "NameError", sc)

HookUpdate(h, item, sc) ==
    CASE h = "tk-houdini" -> HoudiniUpdate(item, sc)
      [] h = "tk-nuke" -> NukeUpdate(item, sc)
      [] h = "tk-vred" -> VredUpdate(item, sc)

----------------------------------------------------------------------------
(* FileItem (api/item.py) and BreakdownManager (api/manager.py).           *)

\* FileItem(node_name, node_type, path): no extra data, no Published File
\* and no latest Published File yet.
FileItem(node_name, node_type, path) ==
    [type |-> "FileItem", node_name |-> node_name, node_type |-> node_type, path |-> path,
     extra_data |-> None, sg_data |-> None, latest_published_file |-> None]

\* FileItem.to_dict(): a snapshot of the item passed to the hooks.
ToDict(item) ==
    [node_name |-> item.node_name, node_type |-> item.node_type, path |-> item.path,
     extra_data |-> item.extra_data, sg_data |-> item.sg_data]

\* copy.copy of a dictionary whose values the model never mutates in place.
CopyCopy(d) == d

\* get_file_items as it would be if it made a FileItem of every scene
\* object, with or without a Published File.
GetFileItemsResultAll(objs) ==
    [i \in DOMAIN objs |->
        [FileItem(objs[i].node_name, objs[i].node_type, objs[i].path)
            EXCEPT !.extra_data = DictGet(objs[i].extra_data),
                   !.sg_data = DictGet(objs[i].sg_data)]]

\* get_file_items(scene_objects): the FileItem list it returns.
GetFileItemsResult(objs) ==
    LET matched == SelectSeq(objs, LAMBDA obj : Truthy(DictGet(obj.sg_data)))
    IN [i \in DOMAIN matched |->
           [FileItem(matched[i].node_name, matched[i].node_type, matched[i].path)
               EXCEPT !.extra_data = DictGet(matched[i].extra_data),
                      !.sg_data = CopyCopy(matched[i].sg_data)]]

PyBool(b) == IF b THEN PyTrue ELSE PyFalse

\* What a facade method that may change one item does: the item and the
\* scene it leaves, the value it returns, the exception it lets through
\* ("" when none), the value the scene hook returned (Absent when the hook
\* was not called) and the queries issued.
Done(item, sc, ret, raised, new_path, issued) ==
    [item |-> item, scene |-> sc, ret |-> ret, raised |-> raised,
     new_path |-> new_path, issued |-> issued]

\* update_to_specific_version as it would be if the Published File were
\* stored on the item before the hook's answer is looked at.
UpdateToSpecificVersionCommitFirst(item, sg_data, h, sc) ==
    LET item_dict == [ToDict(item) EXCEPT !.sg_data = sg_data]
        updated == HookUpdate(h, item_dict, sc)
        new_path == updated.ret
    IN IF updated.raised # ""
       THEN Done(item, updated.scene, None, updated.raised, None, <<>>)
       ELSE Done(IF Truthy(new_path)
                 THEN [item EXCEPT !.sg_data = sg_data,
                                   !.path = new_path,
                                   !.extra_data = item_dict.extra_data]
                 ELSE [item EXCEPT !.sg_data = sg_data],
                 updated.scene, PyBool(Truthy(new_path)), "", new_path, <<>>)

\* update_to_specific_version as it would be if the item took the local
\* path of the Published File instead of the path the hook returned.
UpdateToSpecificVersionRecordPath(item, sg_data, h, sc) ==
    LET item_dict == [ToDict(item) EXCEPT !.sg_data = sg_data]
        updated == HookUpdate(h, item_dict, sc)
        new_path == updated.ret
    IN IF updated.raised # ""
       THEN Done(item, updated.scene, None, updated.raised, None, <<>>)
       ELSE Done(IF Truthy(new_path)
                 THEN [item EXCEPT !.sg_data = sg_data,
                                   !.path = sg_data.path.local_path,
                                   !.extra_data = item_dict.extra_data]
                 ELSE item,
                 updated.scene, PyBool(Truthy(new_path)), "", new_path, <<>>)

\* update_to_specific_version(item, sg_data)
UpdateToSpecificVersion(item, sg_data, h, sc) ==
    LET item_dict == [ToDict(item) EXCEPT !.sg_data = sg_data]
        updated == HookUpdate(h, item_dict, sc)
        new_path == updated.ret
    IN IF updated.raised # ""
       THEN Done(item, updated.scene, None, updated.raised, None, <<>>)
       ELSE Done(IF Truthy(new_path)
                 THEN [item EXCEPT !.sg_data = sg_data,
                                   !.path = new_path,
                                   !.extra_data = item_dict.extra_data]
                 ELSE item,
                 updated.scene, PyBool(Truthy(new_path)), "", new_path, <<>>)

\* update_to_latest_version as it would be without the test for an item
\* that has no latest Published File.
UpdateToLatestVersionNoGuard(item, h, sc) ==
    UpdateToSpecificVersion(item, item.latest_published_file, h, sc)

\* update_to_latest_version(item)
UpdateToLatestVersion(item, h, sc) ==
    IF ~Truthy(item.latest_published_file)
    THEN Done(item, sc, PyFalse, "", Absent, <<>>)
    ELSE UpdateToSpecificVersion(item, item.latest_published_file, h, sc)

\* get_latest_published_file of the facade as it would be if the result were
\* stored on the item whether or not a data retriever is given.
GetLatestPublishedFileAlwaysWrite(item, data_retriever, h, sc, cat) ==
    IF ~Truthy(item) \/ ~Truthy(item.sg_data)
    THEN {Done(item, sc, IF Truthy(data_retriever) THEN None ELSE EmptyDict, "", Absent, <<>>)}
    ELSE {Done([item EXCEPT !.latest_published_file = result.ret],
               sc, result.ret, "", Absent, result.issued) :
            result \in HookGetLatestPublishedFile(item, data_retriever, cat)}

\* get_latest_published_file(item, data_retriever): its possible outcomes;
\* item is None when the caller passes no item.
GetLatestPublishedFile(item, data_retriever, h, sc, cat) ==
    IF ~Truthy(item) \/ ~Truthy(item.sg_data)
    THEN {Done(item, sc, IF Truthy(data_retriever) THEN None ELSE EmptyDict, "", Absent, <<>>)}
    ELSE {Done(IF data_retriever = None
               THEN [item EXCEPT !.latest_published_file = result.ret]
               ELSE item,
               sc, result.ret, "", Absent, result.issued) :
            result \in HookGetLatestPublishedFile(item, data_retriever, cat)}

\* get_published_files_for_items(items, data_retriever): its possible outcomes.
GetPublishedFilesForItems(items, data_retriever, cat) ==
    IF items = <<>>
    THEN {Outcome(IF Truthy(data_retriever) THEN None ELSE EmptyDict, <<>>)}
    ELSE HookGetPublishedFilesForItems(items, data_retriever, cat)

\* get_published_files_for_items_data(items_data, extra_fields)
GetPublishedFilesForItemsData(items_data, cat) ==
    HookGetPublishedFilesForItemsData(items_data, cat)

\* get_published_file_history(item, extra_fields): its possible outcomes.
GetPublishedFileHistory(item, sc, cat) ==
    IF ~Truthy(item.sg_data)
    THEN {Done(item, sc, EmptyList, "", Absent, <<>>)}
    ELSE LET filters == <<Cond("project", "is", <<item.sg_data.project>>),
                          Cond("name", "is", <<item.sg_data.name>>),
                          Cond("task", "is", <<item.sg_data.task>>),
                          Cond("entity", "is", <<item.sg_data.entity>>),
                          Cond("published_file_type", "is",
                               <<item.sg_data.published_file_type>>)>>
             q == Query("find", filters, SgDataKeys,
                        <<OrderKey("version_number", "desc")>>)
         IN {Done(IF Truthy(pfs)
                  THEN [item EXCEPT !.latest_published_file = pfs.items[1]]
                  ELSE item,
                  sc, IF Truthy(pfs) THEN pfs ELSE EmptyList, "", Absent, <<q>>) :
                pfs \in ShotgunFind(cat, q)}

----------------------------------------------------------------------------
(* The session: a site, a scene, and a caller of the facade.               *)

PathKinds == {"local", "url", "none"}
KindIndex(k) == CASE k = "local" -> 0 [] k = "url" -> 1 [] k = "none" -> 2
TaskIndex(t) == IF t = None THEN 0 ELSE t.id

\* The local path of the PublishedFile with the id, on a platform using sep.
LocalPath(id, sep) == Str(sep, "f" \o ToString(id))

PathOfKind(k, id, sep) ==
    CASE k = "local" -> PathDict(LocalPath(id, sep))
      [] k = "url" -> PathDict(None)
      [] k = "none" -> None

\* The PublishedFile entities a site may hold: versions of one name and type
\* under each entity, with or without a task; a version is created after
\* the versions below it.
SitePublishedFiles(sep) ==
    {PublishedFile(((((e.id - 1) * 2 + TaskIndex(t)) * MaxVersion + (v - 1)) * 3)
                       + KindIndex(k) + 1,
                   Link("Project", 1), e, t, "a", Link("PublishedFileType", 1),
                   v, v, PathOfKind(k, ((((e.id - 1) * 2 + TaskIndex(t)) * MaxVersion
                                            + (v - 1)) * 3) + KindIndex(k) + 1, sep)) :
        e \in Entities, t \in {None, Link("Task", 1)}, v \in 1..MaxVersion, k \in PathKinds}

\* A path no PublishedFile has.
UnpublishedPath(sep) == Str(sep, "scratch")

\* The subsets of S holding at most k elements.
RECURSIVE SubsetsUpTo(_, _)
SubsetsUpTo(S, k) ==
    IF k = 0 THEN {{}}
    ELSE LET smaller == SubsetsUpTo(S, k - 1)
         IN smaller \cup {s \cup {x} : s \in smaller, x \in S}

\* No dictionary is tracked, the VRED hook has registered no callback and
\* the site answers.
NoObjects ==
    /\ heap = <<>>
    /\ on_references_changed_cb = None
    /\ referencesChanged = <<>>
    /\ site_down = FALSE

NoCall ==
    [op |-> "", item |-> 0, items |-> <<>>, data_retriever |-> None, sg_data |-> None,
     new_path |-> Absent, ret |-> None, raised |-> "", issued |-> <<>>, passed |-> None]

Init ==
    /\ host \in Hosts
    /\ os_sep \in {"/", "\\"}
    /\ catalog \in SubsetsUpTo(SitePublishedFiles(os_sep), MaxCatalog)
    /\ scene \in [Nodes -> {r.path.local_path : r \in {s \in catalog : Truthy(s.path)
                                                         /\ Truthy(s.path.local_path)}}
                           \cup {UnpublishedPath(os_sep)}]
    /\ scene_objects = <<>>
    /\ file_items = <<>>
    /\ call = NoCall
    /\ NoObjects

\* The lists of item positions a caller may pass as a batch.
Batches(n) ==
    {b \in UNION {[1..k -> 1..n] : k \in 0..n} :
        \A i, j \in DOMAIN b : i < j => b[i] < b[j]}

\* manager.scan_scene()
ScanScene ==
    /\ scene_objects' = HookScanScene(host, scene, os_sep)
    /\ call' = [NoCall EXCEPT !.op = "scan_scene", !.ret = List(scene_objects')]
    /\ UNCHANGED <<objects, host, os_sep, catalog, scene, file_items>>

\* manager.get_published_files_for_items_data(items_data), for the scanned
\* scene objects or for an empty list.
CallGetPublishedFilesForItemsData ==
    \E items_data \in {scene_objects, <<>>} :
        LET result == GetPublishedFilesForItemsData(items_data, catalog)
        IN /\ scene_objects' = IF items_data = <<>> THEN scene_objects
                               ELSE result.items_data
           /\ call' = [NoCall EXCEPT !.op = "get_published_files_for_items_data",
                                     !.items = [i \in DOMAIN items_data |-> i],
                                     !.ret = result.ret,
                                     !.issued = result.issued]
           /\ UNCHANGED <<objects, host, os_sep, catalog, scene, file_items>>

\* manager.get_file_items(scene_objects)
CallGetFileItems ==
    /\ file_items' = GetFileItemsResult(scene_objects)
    /\ call' = [NoCall EXCEPT !.op = "get_file_items", !.ret = List(file_items')]
    /\ UNCHANGED <<objects, host, os_sep, catalog, scene, scene_objects>>

\* The item a caller passes at position i: a FileItem of its list, no item
\* (position 0), or a FileItem it built itself, which has no sg_data
\* (position -1).
ItemAt(i, items, sep) ==
    CASE i = 0 -> None
      [] i = -1 -> FileItem("node0", "alembic", UnpublishedPath(sep))
      [] OTHER -> items[i]

\* manager.get_latest_published_file(item, data_retriever)
CallGetLatestPublishedFile ==
    \E i \in -1..Len(file_items), data_retriever \in {None, DataRetriever} :
        \E done \in GetLatestPublishedFile(ItemAt(i, file_items, os_sep),
                                           data_retriever, host, scene, catalog) :
            /\ file_items' = IF i < 1 THEN file_items
                             ELSE [file_items EXCEPT ![i] = done.item]
            /\ call' = [NoCall EXCEPT !.op = "get_latest_published_file",
                                      !.item = i,
                                      !.data_retriever = data_retriever,
                                      !.ret = done.ret,
                                      !.issued = done.issued,
                                      !.passed = done.item]
            /\ UNCHANGED <<objects, host, os_sep, catalog, scene, scene_objects>>

\* manager.get_published_files_for_items as it would be if a synchronous
\* call stored the first Published File of the result on each item.
CallGetPublishedFilesForItemsWriteBack ==
    \E batch \in Batches(Len(file_items)), data_retriever \in {None, DataRetriever} :
        \E result \in GetPublishedFilesForItems([i \in DOMAIN batch |-> file_items[batch[i]]],
                                                data_retriever, catalog) :
            /\ call' = [NoCall EXCEPT !.op = "get_published_files_for_items",
                                      !.items = batch,
                                      !.data_retriever = data_retriever,
                                      !.ret = result.ret,
                                      !.issued = result.issued]
            /\ file_items' =
                 [i \in DOMAIN file_items |->
                     IF /\ i \in RangeOf(batch)
                        /\ data_retriever = None
                        /\ result.ret.items # <<>>
                     THEN [file_items[i] EXCEPT !.latest_published_file = result.ret.items[1]]
                     ELSE file_items[i]]
            /\ UNCHANGED <<objects, host, os_sep, catalog, scene, scene_objects>>

\* manager.get_published_files_for_items(items, data_retriever)
CallGetPublishedFilesForItems ==
    \E batch \in Batches(Len(file_items)), data_retriever \in {None, DataRetriever} :
        \E result \in GetPublishedFilesForItems([i \in DOMAIN batch |-> file_items[batch[i]]],
                                                data_retriever, catalog) :
            /\ call' = [NoCall EXCEPT !.op = "get_published_files_for_items",
                                      !.items = batch,
                                      !.data_retriever = data_retriever,
                                      !.ret = result.ret,
                                      !.issued = result.issued]
            /\ UNCHANGED <<objects, host, os_sep, catalog, scene, scene_objects, file_items>>

\* manager.get_published_file_history(item)
CallGetPublishedFileHistory ==
    \E i \in 1..Len(file_items) :
        \E done \in GetPublishedFileHistory(file_items[i], scene, catalog) :
            /\ file_items' = [file_items EXCEPT ![i] = done.item]
            /\ call' = [NoCall EXCEPT !.op = "get_published_file_history",
                                      !.item = i,
                                      !.ret = done.ret,
                                      !.issued = done.issued]
            /\ UNCHANGED <<objects, host, os_sep, catalog, scene, scene_objects>>

\* manager.update_to_latest_version(item)
CallUpdateToLatestVersion ==
    \E i \in 1..Len(file_items) :
        LET done == UpdateToLatestVersion(file_items[i], host, scene)
        IN /\ file_items' = [file_items EXCEPT ![i] = done.item]
           /\ scene' = done.scene
           /\ call' = [NoCall EXCEPT !.op = "update_to_latest_version",
                                     !.item = i,
                                     !.sg_data = file_items[i].latest_published_file,
                                     !.new_path = done.new_path,
                                     !.ret = done.ret,
                                     !.raised = done.raised]
           /\ UNCHANGED <<objects, host, os_sep, catalog, scene_objects>>

\* manager.update_to_specific_version(item, sg_data), for a Published File
\* of the site or for no Published File.
CallUpdateToSpecificVersion ==
    \E i \in 1..Len(file_items), sg_data \in catalog \cup {None} :
        LET done == UpdateToSpecificVersion(file_items[i], sg_data, host, scene)
        IN /\ file_items' = [file_items EXCEPT ![i] = done.item]
           /\ scene' = done.scene
           /\ call' = [NoCall EXCEPT !.op = "update_to_specific_version",
                                     !.item = i,
                                     !.sg_data = sg_data,
                                     !.new_path = done.new_path,
                                     !.ret = done.ret,
                                     !.raised = done.raised]
           /\ UNCHANGED <<objects, host, os_sep, catalog, scene_objects>>

Next ==
    \/ ScanScene
    \/ CallGetPublishedFilesForItemsData
    \/ CallGetFileItems
    \/ CallGetLatestPublishedFile
    \/ CallGetPublishedFilesForItems
    \/ CallGetPublishedFileHistory
    \/ CallUpdateToLatestVersion
    \/ CallUpdateToSpecificVersion

Spec == Init /\ [][Next]_vars

----------------------------------------------------------------------------
(* Properties of update_to_specific_version.                               *)

\* The hook's update was called by the most recent call and returned v.
HookReturned(c) == c.raised = "" /\ c.new_path # Absent

\* C1: when the scene hook's update returns a falsy value,
\* update_to_specific_version returns False and the item's sg_data, path,
\* extra_data and latest_published_file are what they were before the call.
C1_FalsyUpdateLeavesItem ==
    [][(/\ call'.op = "update_to_specific_version"
        /\ HookReturned(call')
        /\ ~Truthy(call'.new_path))
       => (/\ call'.ret = PyFalse
           /\ file_items' = file_items)]_vars

\* A call of update_to_specific_version for a Published File without a local
\* path, for which the hook returned False.
C1_Witness ==
    /\ call.op = "update_to_specific_version"
    /\ Truthy(call.sg_data)
    /\ HookReturned(call)
    /\ call.new_path = PyFalse
    /\ call.ret = PyFalse

\* C2: when the scene hook's update returns a non-empty path p,
\* update_to_specific_version returns True and the item holds the given
\* sg_data, the path p and the extra_data of the snapshot given to the hook,
\* all three in the state the call leaves; the rest of the item and the
\* other items are as before.
C2_TruthyUpdateCommitsAll ==
    [][(/\ call'.op = "update_to_specific_version"
        /\ HookReturned(call')
        /\ Truthy(call'.new_path))
       => (/\ call'.ret = PyTrue
           /\ file_items' =
                [file_items EXCEPT ![call'.item] =
                    [file_items[call'.item] EXCEPT
                        !.sg_data = call'.sg_data,
                        !.path = call'.new_path,
                        !.extra_data = ToDict(file_items[call'.item]).extra_data]])]_vars

\* A call of update_to_specific_version that moved the item to another
\* Published File, whose local path the hook rewrote with forward slashes.
C2_Witness ==
    /\ call.op = "update_to_specific_version"
    /\ HookReturned(call)
    /\ Truthy(call.new_path)
    /\ call.ret = PyTrue
    /\ call.new_path # call.sg_data.path.local_path
    /\ file_items[call.item].sg_data = call.sg_data
    /\ file_items[call.item].path = call.new_path

----------------------------------------------------------------------------
(* Properties of the lookups of the facade.                                *)

\* The item the most recent call was made for.
CalledItem == file_items[call.item]

\* r and s have the same name and published file type and the same task,
\* and the same entity when s has no task.
SameLookupKey(r, s) ==
    /\ r.name = s.name
    /\ r.published_file_type = s.published_file_type
    /\ r.task = s.task
    /\ ~Truthy(s.task) => r.entity = s.entity

\* C3 as stated: in every reachable state each item's latest_published_file
\* is unset or has the item's sg_data values for project, entity, task, name
\* and published_file_type.
C3_LatestInIdentityGroup ==
    \A i \in DOMAIN file_items :
        \/ file_items[i].latest_published_file = None
        \/ SameIdentity(file_items[i].latest_published_file, file_items[i].sg_data)

\* C3 as amended: in the state a synchronous get_latest_published_file
\* leaves, the item's latest_published_file is the returned value, which is
\* None or has the name, published file type and task of the item's sg_data
\* and, when that task is empty, its entity; in the state a
\* get_published_file_history that found Published Files leaves, it has the
\* sg_data values for all five identity fields.
C3_LatestAfterLookup ==
    /\ (/\ call.op = "get_latest_published_file"
        /\ call.data_retriever = None
        /\ call.item >= 1)
       => (/\ CalledItem.latest_published_file = call.ret
           /\ \/ call.ret = None
              \/ SameLookupKey(call.ret, CalledItem.sg_data))
    /\ (/\ call.op = "get_published_file_history"
        /\ Truthy(call.ret))
       => (/\ CalledItem.latest_published_file = call.ret.items[1]
           /\ SameIdentity(call.ret.items[1], CalledItem.sg_data))

\* A synchronous get_latest_published_file that set the latest Published
\* File of an item to one linked to another entity.
C3_Witness ==
    /\ call.op = "get_latest_published_file"
    /\ call.data_retriever = None
    /\ call.item >= 1
    /\ CalledItem.latest_published_file # None
    /\ CalledItem.latest_published_file.entity # CalledItem.sg_data.entity

\* C9: the path lookup, the batch lookup and the single-item lookup return
\* an empty list, {} or None and issue no query when they are given no
\* items, no item or an item without sg_data, with or without a data
\* retriever.
C9_EmptyInputNoQuery ==
    /\ (call.op = "get_published_files_for_items_data" /\ call.items = <<>>)
       => (call.ret = EmptyList /\ call.issued = <<>>)
    /\ (call.op = "get_published_files_for_items" /\ call.items = <<>>)
       => (/\ call.ret = IF call.data_retriever = None THEN EmptyDict ELSE None
           /\ call.issued = <<>>)
    /\ (call.op = "get_latest_published_file" /\ call.item < 1)
       => (/\ call.ret = IF call.data_retriever = None THEN EmptyDict ELSE None
           /\ call.issued = <<>>)

\* A batch lookup given no items and a data retriever by a caller that holds
\* items.
C9_Witness ==
    /\ call.op = "get_published_files_for_items"
    /\ call.items = <<>>
    /\ call.data_retriever = DataRetriever
    /\ file_items # <<>>
    /\ call.ret = None
    /\ call.issued = <<>>

\* C10: a batch lookup or a single-item lookup given items issues exactly
\* one query: execute_find / execute_find_one of the data retriever when one
\* is supplied, find / find_one of the synchronous client otherwise.
C10_ExactlyOneQuery ==
    /\ (call.op = "get_published_files_for_items" /\ call.items # <<>>)
       => (/\ Len(call.issued) = 1
           /\ call.issued[1].method =
                IF call.data_retriever = None THEN "find" ELSE "execute_find")
    /\ (call.op = "get_latest_published_file" /\ call.item >= 1)
       => (/\ Len(call.issued) = 1
           /\ call.issued[1].method =
                IF call.data_retriever = None THEN "find_one" ELSE "execute_find_one")

\* A single-item lookup made with a data retriever.
C10_Witness ==
    /\ call.op = "get_latest_published_file"
    /\ call.item >= 1
    /\ call.data_retriever = DataRetriever
    /\ call.issued = <<Query("execute_find_one", LatestFilters(CalledItem),
                             QueryFields(CalledItem.sg_data), VersionOrder)>>

----------------------------------------------------------------------------
(* A caller of the lookups that holds items of any identity: the filters   *)
(* the hook builds are read from the query the call issued.                *)

\* The PublishedFile an item of the identity may hold as its sg_data.
IdentityRecord(e, t, n, pft) ==
    PublishedFile(100 + ((((e.id - 1) * 3 + TaskIndex(t)) * 2
                            + (IF n = "a" THEN 0 ELSE 1)) * 2) + pft.id,
                  Link("Project", 1), e, t, n, pft, 1, 1, None)

ItemRecords ==
    {IdentityRecord(e, t, n, pft) :
        e \in Entities, t \in Tasks, n \in Names, pft \in PublishedFileTypes}

\* The FileItem get_file_items builds for a scene object holding sg_data.
ItemOf(sg_data) ==
    [FileItem("node0", "alembic", UnpublishedPath("/")) EXCEPT !.sg_data = sg_data]

\* Published Files of another project, linked to the entities and to one
\* task of the items.
OtherProjectFiles ==
    {PublishedFile(200 + (e.id - 1) * 2 + TaskIndex(t), Link("Project", 2), e, t,
                   "a", Link("PublishedFileType", 1), 1, 1, None) :
        e \in Entities, t \in {None, Link("Task", 1)}}

FilterInit ==
    /\ host = "tk-houdini"
    /\ os_sep = "/"
    /\ catalog \in SubsetsUpTo(OtherProjectFiles, 1)
    /\ scene = [n \in Nodes |-> UnpublishedPath("/")]
    /\ scene_objects = <<>>
    /\ file_items \in UNION {[1..k -> {ItemOf(r) : r \in ItemRecords}] : k \in 1..MaxBatch}
    /\ call = NoCall
    /\ NoObjects

LookupNext ==
    \/ CallGetPublishedFilesForItems
    \/ CallGetLatestPublishedFile

FilterSpec == FilterInit /\ [][LookupNext]_vars

\* A caller of the lookups that holds one item, on a site holding several
\* versions and creation dates of its Published File and of another one.
OrderRecords ==
    {PublishedFile(300 + ((((IF n = "a" THEN 0 ELSE 1) * MaxVersion + (v - 1)) * MaxCreated
                             + (c - 1)) * 2) + k,
                   Link("Project", 1), Link("Shot", 1), Link("Task", 1), n,
                   Link("PublishedFileType", 1), v, c, None) :
        n \in Names, v \in 1..MaxVersion, c \in 1..MaxCreated, k \in 1..2}

OrderInit ==
    /\ host = "tk-houdini"
    /\ os_sep = "/"
    /\ catalog \in SubsetsUpTo(OrderRecords, MaxRecords)
    /\ scene = [n \in Nodes |-> UnpublishedPath("/")]
    /\ scene_objects = <<>>
    /\ file_items = <<ItemOf(IdentityRecord(Link("Shot", 1), Link("Task", 1), "a",
                                            Link("PublishedFileType", 1)))>>
    /\ call = NoCall
    /\ NoObjects

OrderSpec == OrderInit /\ [][LookupNext]_vars

----------------------------------------------------------------------------
(* Properties of the order of the lookups (OrderSpec).                     *)

\* The filters of the query the most recent call issued.
IssuedFilters == call.issued[1].filters

\* The Published Files of the site that the issued filters match.
Found == {r \in catalog : MatchesAll(IssuedFilters, r)}

\* r is at least as high as s: a higher version number, or the same version
\* number and a creation date that is not older.
NotBelow(r, s) ==
    \/ r.version_number > s.version_number
    \/ r.version_number = s.version_number /\ r.created_at >= s.created_at

\* C4: a synchronous get_latest_published_file returns None when no
\* Published File of the site matches the item's filters, and otherwise a
\* matching one with the highest version number and, among those with that
\* version number, the most recent creation date; a synchronous
\* get_published_files_for_items returns the matching Published Files sorted
\* by version number, then creation date, both descending.
C4_LatestByVersionThenCreated ==
    /\ (/\ call.op = "get_latest_published_file"
        /\ call.data_retriever = None
        /\ call.item >= 1)
       => IF Found = {} THEN call.ret = None
          ELSE call.ret \in Found /\ \A s \in Found : NotBelow(call.ret, s)
    /\ (/\ call.op = "get_published_files_for_items"
        /\ call.data_retriever = None
        /\ call.items # <<>>)
       => (/\ RangeOf(call.ret.items) = Found
           /\ Len(call.ret.items) = Cardinality(Found)
           /\ \A i, j \in DOMAIN call.ret.items :
                 i < j => NotBelow(call.ret.items[i], call.ret.items[j]))

\* A synchronous get_latest_published_file on a site holding a matching
\* Published File of the returned version number with an older creation date
\* and a matching one of a lower version number that is not older.
C4_Witness ==
    /\ call.op = "get_latest_published_file"
    /\ call.data_retriever = None
    /\ call.item >= 1
    /\ call.ret # None
    /\ \E s \in Found : /\ s.version_number = call.ret.version_number
                        /\ s.created_at < call.ret.created_at
    /\ \E s \in Found : /\ s.version_number < call.ret.version_number
                        /\ s.created_at >= call.ret.created_at

----------------------------------------------------------------------------
(* Properties of the filters of the lookups (FilterSpec).                  *)

\* The items the most recent batch lookup was made for.
CalledBatch == [i \in DOMAIN call.items |-> file_items[call.items[i]]]

\* Published Files of every combination of identity field values.
Probes ==
    {PublishedFile(0, p, e, t, n, pft, 1, 1, None) :
        p \in Projects, e \in Entities, t \in Tasks, n \in Names,
        pft \in PublishedFileTypes}

BatchCalled == call.op = "get_published_files_for_items" /\ call.items # <<>>

\* r belongs to the identity group of an item of the batch.
InBatchGroups(r) == \E i \in DOMAIN CalledBatch : SameIdentity(r, CalledBatch[i].sg_data)

\* r has the task of an item of the batch that has one, or no task and the
\* entity of an item of the batch that has no task.
TaskOrEntityOfBatch(r) ==
    \/ \E i \in DOMAIN CalledBatch : /\ CalledBatch[i].sg_data.task # None
                                     /\ r.task = CalledBatch[i].sg_data.task
    \/ /\ r.task = None
       /\ \E i \in DOMAIN CalledBatch : /\ CalledBatch[i].sg_data.task = None
                                        /\ r.entity = CalledBatch[i].sg_data.entity

\* r has the name of an item of the batch, the published file type of an
\* item of the batch and the task or entity of an item of the batch.
FieldsOfBatch(r) ==
    /\ \E i \in DOMAIN CalledBatch : r.name = CalledBatch[i].sg_data.name
    /\ \E i \in DOMAIN CalledBatch :
          r.published_file_type = CalledBatch[i].sg_data.published_file_type
    /\ TaskOrEntityOfBatch(r)

\* C5 as stated: the filters of a non-empty batch match a Published File if
\* and only if it belongs to the identity group of an item of the batch.
C5_BatchMatchesUnionOfGroups ==
    BatchCalled => \A r \in Probes : MatchesAll(IssuedFilters, r) <=> InBatchGroups(r)

\* C5 as amended: the filters of a non-empty batch match every Published
\* File of the identity group of each item, and match a Published File if
\* and only if it has the name of an item, the published file type of an
\* item, and the task of an item that has one or no task and the entity of
\* an item that has no task; a synchronous lookup returns the Published
\* Files of the site that do.
C5_BatchMatchesFieldsOfBatch ==
    BatchCalled =>
        /\ \A r \in Probes : InBatchGroups(r) => MatchesAll(IssuedFilters, r)
        /\ \A r \in Probes : MatchesAll(IssuedFilters, r) <=> FieldsOfBatch(r)
        /\ call.data_retriever = None =>
              RangeOf(call.ret.items) = {r \in catalog : FieldsOfBatch(r)}

\* A synchronous lookup for two items that returned a Published File of
\* another project, while the filters match one that has the name of the
\* first item and the published file type of the second and belongs to the
\* identity group of neither.
C5_Witness ==
    /\ BatchCalled
    /\ Len(call.items) = 2
    /\ call.data_retriever = None
    /\ call.ret.items # <<>>
    /\ \E r \in Probes : /\ MatchesAll(IssuedFilters, r)
                         /\ ~InBatchGroups(r)
                         /\ r.project = CalledBatch[1].sg_data.project
                         /\ r.name = CalledBatch[1].sg_data.name
                         /\ r.name # CalledBatch[2].sg_data.name
                         /\ r.published_file_type = CalledBatch[2].sg_data.published_file_type
                         /\ r.published_file_type # CalledBatch[1].sg_data.published_file_type

\* The batch holds an item with a task and an item without a task.
MixedBatch ==
    /\ \E i \in DOMAIN CalledBatch : CalledBatch[i].sg_data.task # None
    /\ \E i \in DOMAIN CalledBatch : CalledBatch[i].sg_data.task = None

\* C6: for a batch mixing items with and without a task, the filters are the
\* name and published file type conditions and one task/entity filter, which
\* matches a Published File if and only if its task is the task of an item
\* that has one, or its task is empty and its entity is the entity of an
\* item without a task.
C6_MixedBatchTaskOrEntity ==
    (BatchCalled /\ MixedBatch) =>
        /\ Len(IssuedFilters) = 3
        /\ IssuedFilters[1].field = "name"
        /\ IssuedFilters[2].field = "published_file_type"
        /\ \A r \in Probes : Matches(IssuedFilters[3], r) <=> TaskOrEntityOfBatch(r)

\* A lookup for a mixed batch whose task/entity filter rejects a Published
\* File linked to the entity of the item without a task and to a task no
\* item has, and one without a task linked to the entity of the item that
\* has a task.
C6_Witness ==
    /\ BatchCalled
    /\ MixedBatch
    /\ Len(call.items) = 2
    /\ CalledBatch[1].sg_data.task # None
    /\ CalledBatch[1].sg_data.entity # CalledBatch[2].sg_data.entity
    /\ \E r \in Probes : /\ r.task \notin {None, CalledBatch[1].sg_data.task}
                         /\ r.entity = CalledBatch[2].sg_data.entity
                         /\ ~Matches(IssuedFilters[3], r)
    /\ \E r \in Probes : /\ r.task = None
                         /\ r.entity = CalledBatch[1].sg_data.entity
                         /\ ~Matches(IssuedFilters[3], r)

LatestCalled == call.op = "get_latest_published_file" /\ call.item >= 1

\* C7 as stated: the filters built for one item match a Published File if
\* and only if it has the item's sg_data values for project, entity, task,
\* name and published_file_type.
C7_LatestMatchesIdentity ==
    LatestCalled =>
        \A r \in Probes : MatchesAll(IssuedFilters, r) <=> SameIdentity(r, CalledItem.sg_data)

\* C7 as amended: the filters built for one item match a Published File if
\* and only if it has the item's name and published file type and the
\* item's task, an empty task being matched only by an empty task, and,
\* when the item has no task, the item's entity; the project is not
\* constrained, nor is the entity when the item has a task.
C7_LatestMatchesLookupKey ==
    LatestCalled =>
        /\ \A r \in Probes :
              MatchesAll(IssuedFilters, r) <=> SameLookupKey(r, CalledItem.sg_data)
        /\ call.data_retriever = None =>
              (call.ret = None <=> \A r \in catalog : ~SameLookupKey(r, CalledItem.sg_data))

\* A synchronous lookup for an item with a task that returned a Published
\* File of another project linked to another entity.
C7_Witness ==
    /\ LatestCalled
    /\ call.data_retriever = None
    /\ CalledItem.sg_data.task # None
    /\ call.ret # None
    /\ call.ret.project # CalledItem.sg_data.project
    /\ call.ret.entity # CalledItem.sg_data.entity

\* C8: for a non-empty batch whose items all have the same project, entity,
\* task, name and published file type, the batch filters match a Published
\* File if and only if the filters get_latest_published_file builds for the
\* first item do, with a task and without.
C8_UniformBatchAsSingle ==
    (/\ BatchCalled
     /\ \A i \in DOMAIN CalledBatch : SameIdentity(CalledBatch[i].sg_data, CalledBatch[1].sg_data))
    => \A r \in Probes :
          MatchesAll(IssuedFilters, r) <=> MatchesAll(LatestFilters(CalledBatch[1]), r)

\* A lookup for two items of one identity without a task, whose filters
\* reject a Published File of their name, type and entity that has a task.
C8_Witness ==
    /\ BatchCalled
    /\ Len(call.items) = 2
    /\ SameIdentity(CalledBatch[2].sg_data, CalledBatch[1].sg_data)
    /\ CalledBatch[1].sg_data.task = None
    /\ \E r \in Probes : /\ r.name = CalledBatch[1].sg_data.name
                         /\ r.published_file_type = CalledBatch[1].sg_data.published_file_type
                         /\ r.entity = CalledBatch[1].sg_data.entity
                         /\ r.task # None
                         /\ ~MatchesAll(IssuedFilters, r)

----------------------------------------------------------------------------
(* Properties of the asynchronous lookups.                                 *)

\* What a query asks for, whichever client it is submitted to.
QueryBody(q) ==
    [entity_type |-> q.entity_type, filters |-> q.filters, fields |-> q.fields,
     order |-> q.order]

\* The step is a lookup with a data retriever that follows the same lookup
\* for the same items without one.
AsyncAfterSync ==
    /\ call.op \in {"get_published_files_for_items", "get_latest_published_file"}
    /\ call.issued # <<>>
    /\ call.data_retriever = None
    /\ call'.op = call.op
    /\ call'.items = call.items
    /\ call'.item = call.item
    /\ call'.data_retriever = DataRetriever

\* C11: a lookup made with a data retriever submits one query with the
\* entity type, filters, fields and order of the query the same lookup
\* submits without one, for the batch and for the single-item lookup, and
\* what the synchronous lookup returned is a result the task id resolves to
\* on the same site.
C11_AsyncQueryAsSync ==
    [][AsyncAfterSync =>
          /\ Len(call'.issued) = 1
          /\ QueryBody(call'.issued[1]) = QueryBody(call.issued[1])
          /\ call'.issued[1].method =
                IF call.op = "get_latest_published_file"
                THEN "execute_find_one" ELSE "execute_find"
          /\ call'.ret = TaskId(call'.issued[1])
          /\ call.ret \in Resolved(call'.ret, catalog)]_vars

\* A batch lookup for two items with a data retriever whose task id
\* resolves to a Published File of the site.
C11_Witness ==
    /\ call.op = "get_published_files_for_items"
    /\ Len(call.items) = 2
    /\ call.data_retriever = DataRetriever
    /\ call.ret.type = "task_id"
    /\ \E l \in Resolved(call.ret, catalog) : l.items # <<>>

----------------------------------------------------------------------------
(* Properties of what the lookups write on the items.                      *)

\* The Published Files of the returned list that have the identity of the
\* item's sg_data, in the order of the list.
GroupInResult(item) ==
    SelectSeq(call.ret.items, LAMBDA r : SameIdentity(r, item.sg_data))

SyncBatchCalled == BatchCalled /\ call.data_retriever = None

C13_LatestWrittenIffSyncAnyItem ==
    [][/\ (call'.op = "get_latest_published_file" /\ call'.item # 0) =>
             IF call'.data_retriever = None
             THEN call'.passed.latest_published_file = call'.ret
             ELSE file_items' = file_items
       /\ (call'.op = "get_published_files_for_items" /\ call'.data_retriever # None) =>
             file_items' = file_items]_vars

\* C13 as amended: get_latest_published_file called for an item that has
\* sg_data and without a data retriever sets the item's
\* latest_published_file to the value it returns (None when no Published
\* File matches) and changes nothing else; called with a data retriever it
\* returns the task id and changes no item; called for an item without
\* sg_data it changes nothing; get_published_files_for_items called with a
\* data retriever changes no item.
C13_LatestWrittenIffSync ==
    [][/\ (call'.op = "get_latest_published_file" /\ call'.item >= 1) =>
             IF call'.data_retriever = None
             THEN /\ file_items' = [file_items EXCEPT
                                       ![call'.item].latest_published_file = call'.ret]
                  /\ call'.passed = file_items'[call'.item]
                  /\ (call'.ret = None <=>
                         \A r \in catalog : ~MatchesAll(call'.issued[1].filters, r))
             ELSE /\ file_items' = file_items
                  /\ call'.ret = TaskId(call'.issued[1])
       /\ (call'.op = "get_latest_published_file" /\ call'.item = -1) =>
             /\ file_items' = file_items
             /\ call'.passed = ItemAt(-1, file_items, os_sep)
       /\ (call'.op = "get_published_files_for_items" /\ call'.data_retriever # None) =>
             file_items' = file_items]_vars

\* A lookup with a data retriever for an item that holds a latest Published
\* File from an earlier lookup, and keeps it.
C13_Witness ==
    /\ LatestCalled
    /\ call.data_retriever = DataRetriever
    /\ call.ret.type = "task_id"
    /\ CalledItem.latest_published_file # None

----------------------------------------------------------------------------
(* Properties of update_to_latest_version.                                 *)

\* C14: update_to_latest_version called for an item without a latest
\* Published File returns False, does not call the scene hook and changes
\* neither the item nor the scene; called for an item that has one, it
\* returns (or raises) what update_to_specific_version does for the item
\* and its latest Published File, and leaves the item and the scene as that
\* call does.
C14_UpdateToLatestDelegates ==
    [][call'.op = "update_to_latest_version" =>
          IF file_items[call'.item].latest_published_file = None
          THEN /\ call'.ret = PyFalse
               /\ call'.raised = ""
               /\ call'.new_path = Absent
               /\ file_items' = file_items
               /\ scene' = scene
          ELSE LET specific == UpdateToSpecificVersion(
                                   file_items[call'.item],
                                   file_items[call'.item].latest_published_file,
                                   host, scene)
               IN /\ call'.ret = specific.ret
                  /\ call'.raised = specific.raised
                  /\ call'.new_path = specific.new_path
                  /\ file_items' = [file_items EXCEPT ![call'.item] = specific.item]
                  /\ scene' = specific.scene]_vars

\* An update_to_latest_version that moved an item to its latest Published
\* File, another one than it held, and returned True.
C14_Witness ==
    /\ call.op = "update_to_latest_version"
    /\ call.ret = PyTrue
    /\ CalledItem.sg_data = CalledItem.latest_published_file
    /\ CalledItem.sg_data = call.sg_data
    /\ CalledItem.path = call.new_path
    /\ \E r \in catalog : /\ r # call.sg_data
                          /\ Truthy(r.path)
                          /\ r.path.local_path = scene_objects[1].path

----------------------------------------------------------------------------
(* The path lookup and get_file_items with the identity of the sg_data     *)
(* dictionaries tracked: heap[a] is the dictionary at address a, and a     *)
(* Published File dictionary holds its entity as a reference to a link     *)
(* dictionary.                                                             *)

Ref(a) == [type |-> "ref", addr |-> a]

\* The dictionaries sgtk.util.find_publish builds for one Published File:
\* the link to its entity, then the Published File holding that link.
PublishDicts(r, h) ==
    <<[id |-> r.entity.id], [name |-> r.name, entity |-> Ref(Len(h) + 1)]>>

\* sgtk.util.find_publish(file_paths): one new Published File dictionary
\* per path that has one, whatever the number of times the path is asked.
RECURSIVE FindPublish(_, _, _)
FindPublish(file_paths, cat, h) ==
    IF file_paths = <<>> THEN [heap |-> h, publishes |-> {}]
    ELSE LET rest == FindPublish(Tail(file_paths), cat, h)
             path == Head(file_paths)
             r == CHOOSE r \in PublishedAt(cat, path) :
                      \A s \in PublishedAt(cat, path) : s.id <= r.id
         IN IF PublishedAt(cat, path) = {} \/ \E e \in rest.publishes : e.path = path
            THEN rest
            ELSE [heap |-> rest.heap \o PublishDicts(r, rest.heap),
                  publishes |-> rest.publishes
                                \cup {[path |-> path, ref |-> Ref(Len(rest.heap) + 2)]}]

\* get_published_files_for_items_data of the hook: every items data whose
\* path has a Published File is given the dictionary find_publish holds
\* for that path.
HeapGetPublishedFilesForItemsData(items_data, cat, h) ==
    IF items_data = <<>> THEN [heap |-> h, items_data |-> items_data]
    ELSE LET found == FindPublish([i \in DOMAIN items_data |-> items_data[i].path], cat, h)
         IN [heap |-> found.heap,
             items_data |->
                [i \in DOMAIN items_data |->
                    IF \E e \in found.publishes : e.path = items_data[i].path
                    THEN [items_data[i] EXCEPT !.sg_data =
                            (CHOOSE e \in found.publishes : e.path = items_data[i].path).ref]
                    ELSE items_data[i]]]

\* copy.copy as it would be if it returned the dictionary it is given.
ShallowCopyAlias(ref, h) == [heap |-> h, ref |-> ref]

\* copy.copy(d) for the dictionary at ref: a new dictionary holding the
\* values of d, references included.
ShallowCopy(ref, h) == [heap |-> Append(h, h[ref.addr]), ref |-> Ref(Len(h) + 1)]

\* get_file_items(scene_objects): the FileItem list it returns and the heap
\* it leaves.
RECURSIVE HeapGetFileItems(_, _)
HeapGetFileItems(objs, h) ==
    IF objs = <<>> THEN [heap |-> h, file_items |-> <<>>]
    ELSE LET obj == Head(objs)
         IN IF Truthy(DictGet(obj.sg_data))
            THEN LET copy == ShallowCopy(obj.sg_data, h)
                     rest == HeapGetFileItems(Tail(objs), copy.heap)
                 IN [heap |-> rest.heap,
                     file_items |->
                        <<[FileItem(obj.node_name, obj.node_type, obj.path)
                              EXCEPT !.extra_data = DictGet(obj.extra_data),
                                     !.sg_data = copy.ref]>> \o rest.file_items]
            ELSE HeapGetFileItems(Tail(objs), h)

\* What item.sg_data reads: its fields and the values nested in them.
SgDataRead(item, h) ==
    [name |-> h[item.sg_data.addr].name,
     entity |-> h[h[item.sg_data.addr].entity.addr]]

\* Two Published Files of a site, each at a local path.
TrackedFiles ==
    {PublishedFile(400 + k, Link("Project", 1), Link("Shot", k), None, "a",
                   Link("PublishedFileType", 1), 1, 1, PathDict(LocalPath(400 + k, "/"))) :
        k \in 1..2}

\* A scan of a Houdini scene in which every node holds the path of a
\* Published File, two nodes possibly the same one, or an unpublished path.
AliasInit ==
    /\ host = "tk-houdini"
    /\ os_sep = "/"
    /\ catalog = TrackedFiles
    /\ scene = [n \in Nodes |-> UnpublishedPath("/")]
    /\ scene_objects \in
          {[i \in 1..MaxScanned |-> SceneObject(NodeName(i), "alembic", paths[i], Absent)] :
              paths \in [1..MaxScanned ->
                            {r.path.local_path : r \in TrackedFiles}
                            \cup {UnpublishedPath("/")}]}
    /\ file_items = <<>>
    /\ call = NoCall
    /\ NoObjects

\* manager.get_published_files_for_items_data(scene_objects)
TrackedGetPublishedFilesForItemsData ==
    LET result == HeapGetPublishedFilesForItemsData(scene_objects, catalog, heap)
    IN /\ Len(result.heap) <= MaxHeap
       /\ heap' = result.heap
       /\ scene_objects' = result.items_data
       /\ call' = [NoCall EXCEPT !.op = "get_published_files_for_items_data",
                                 !.items = [i \in DOMAIN scene_objects |-> i]]
       /\ UNCHANGED <<site_down, on_references_changed_cb, referencesChanged,
                      host, os_sep, catalog, scene, file_items>>

\* manager.get_file_items(scene_objects)
TrackedGetFileItems ==
    LET result == HeapGetFileItems(scene_objects, heap)
    IN /\ Len(result.heap) <= MaxHeap
       /\ heap' = result.heap
       /\ file_items' = result.file_items
       /\ call' = [NoCall EXCEPT !.op = "get_file_items"]
       /\ UNCHANGED <<site_down, on_references_changed_cb, referencesChanged,
                      host, os_sep, catalog, scene, scene_objects>>

\* item.sg_data = sg_data, for a Published File dictionary obtained from the
\* site, as update_to_specific_version assigns it.
ReplaceSgData ==
    \E i \in DOMAIN file_items, r \in catalog :
        /\ Len(heap) + 2 <= MaxHeap
        /\ heap' = heap \o PublishDicts(r, heap)
        /\ file_items' = [file_items EXCEPT ![i].sg_data = Ref(Len(heap) + 2)]
        /\ call' = [NoCall EXCEPT !.op = "item.sg_data = sg_data", !.item = i]
        /\ UNCHANGED <<site_down, on_references_changed_cb, referencesChanged,
                       host, os_sep, catalog, scene, scene_objects>>

\* item.sg_data["name"] = name
SetSgDataField ==
    \E i \in DOMAIN file_items, name \in Names :
        /\ heap' = [heap EXCEPT ![file_items[i].sg_data.addr].name = name]
        /\ call' = [NoCall EXCEPT !.op = "item.sg_data[name] = value", !.item = i]
        /\ UNCHANGED <<site_down, on_references_changed_cb, referencesChanged,
                       host, os_sep, catalog, scene, scene_objects, file_items>>

\* item.sg_data["entity"]["id"] = id
SetSgDataNested ==
    \E i \in DOMAIN file_items, e \in Entities :
        /\ heap' = [heap EXCEPT ![heap[file_items[i].sg_data.addr].entity.addr].id = e.id]
        /\ call' = [NoCall EXCEPT !.op = "item.sg_data[entity][id] = value", !.item = i]
        /\ UNCHANGED <<site_down, on_references_changed_cb, referencesChanged,
                       host, os_sep, catalog, scene, scene_objects, file_items>>

AliasNext ==
    \/ TrackedGetPublishedFilesForItemsData
    \/ TrackedGetFileItems
    \/ ReplaceSgData
    \/ SetSgDataField
    \/ SetSgDataNested

AliasSpec == AliasInit /\ [][AliasNext]_vars

----------------------------------------------------------------------------
(* Properties of the copies get_file_items makes (AliasSpec).              *)

\* The step changes the sg_data of one item of the list get_file_items
\* returned, which stays the list.
SgDataMutated ==
    /\ call'.op \in {"item.sg_data = sg_data", "item.sg_data[name] = value",
                     "item.sg_data[entity][id] = value"}
    /\ Len(file_items') = Len(file_items)

\* C15 as stated: replacing the sg_data of an item get_file_items returned,
\* changing one of its fields or changing a value nested in one of its
\* fields leaves what the sg_data of every other item reads as it was.
C15_NoMutationSeenByOthers ==
    [][SgDataMutated =>
          \A j \in DOMAIN file_items :
              j # call'.item => SgDataRead(file_items'[j], heap') = SgDataRead(file_items[j], heap)]_vars

\* C15 as amended: the items get_file_items returns hold pairwise different
\* sg_data dictionaries, and replacing the sg_data of one of them or
\* changing one of its fields leaves what the sg_data of every other item
\* reads as it was.
C15_NoFieldMutationSeenByOthers ==
    [][/\ (SgDataMutated /\ call'.op # "item.sg_data[entity][id] = value") =>
             \A j \in DOMAIN file_items :
                 j # call'.item =>
                    SgDataRead(file_items'[j], heap') = SgDataRead(file_items[j], heap)
       /\ call'.op = "get_file_items" =>
             \A i, j \in DOMAIN file_items' :
                 /\ i # j => file_items'[i].sg_data # file_items'[j].sg_data
                 /\ \A k \in DOMAIN scene_objects :
                       file_items'[i].sg_data # scene_objects[k].sg_data]_vars

\* Two items made from scene objects holding the same Published File
\* dictionary, one of which was given another name and reads it while the
\* other reads the name of the Published File; both hold the same entity
\* dictionary.
C15_Witness ==
    /\ call.op = "item.sg_data[name] = value"
    /\ Len(file_items) = 2
    /\ scene_objects[1].sg_data = scene_objects[2].sg_data
    /\ SgDataRead(file_items[1], heap).name # SgDataRead(file_items[2], heap).name
    /\ heap[file_items[1].sg_data.addr].entity = heap[file_items[2].sg_data.addr].entity

----------------------------------------------------------------------------
(* The path lookup followed by get_file_items, for any scan result.        *)

\* The paths a scene object may hold on a site: the local path of one of its
\* Published Files, or a path nothing was published at.
ScannedPaths(cat, sep) ==
    {r.path.local_path : r \in {s \in cat : Truthy(s.path) /\ Truthy(s.path.local_path)}}
        \cup {UnpublishedPath(sep)}

\* The lists of at most n scene objects a scan may return.
ScanResults(h, cat, sep, n) ==
    UNION {{[i \in 1..k |-> SceneObject(NodeName(i), NodeType(h, i), paths[i], Absent)] :
               paths \in [1..k -> ScannedPaths(cat, sep)]} : k \in 0..n}

\* A site, and a scan result the caller is about to look up.
ScanInit ==
    /\ host \in Hosts
    /\ os_sep \in {"/", "\\"}
    /\ catalog \in SubsetsUpTo(SitePublishedFiles(os_sep), MaxCatalog)
    /\ scene = [n \in Nodes |-> UnpublishedPath(os_sep)]
    /\ scene_objects \in ScanResults(host, catalog, os_sep, MaxReferences)
    /\ file_items = <<>>
    /\ call = NoCall
    /\ NoObjects

ScanNext ==
    \/ CallGetPublishedFilesForItemsData
    \/ CallGetFileItems

ScanSpec == ScanInit /\ [][ScanNext]_vars

\* The positions of the scene objects whose path has a Published File.
WithRecord == {k \in DOMAIN scene_objects : PublishedAt(catalog, scene_objects[k].path) # {}}

\* The scan result was looked up by the previous call, and this call is
\* get_file_items on it.
FileItemsAfterLookup ==
    /\ call.op = "get_published_files_for_items_data"
    /\ call.items = [i \in DOMAIN scene_objects |-> i]
    /\ call'.op = "get_file_items"

\* C16: for any scan result and any site, get_file_items called after the
\* path lookup returns one FileItem per scene object whose path has a
\* Published File, in the order of the scan, holding that Published File as
\* sg_data; neither call raises, the lookup returned the matched scene
\* objects, and a scene object without a Published File was given no
\* "sg_data" key and makes no FileItem.
C16_OneItemPerPublishedReference ==
    [][FileItemsAfterLookup =>
          /\ call.raised = "" /\ call'.raised = ""
          /\ \A k \in DOMAIN scene_objects \ WithRecord : scene_objects[k].sg_data = Absent
          /\ call.ret = List(SelectSeq(scene_objects, LAMBDA o : o.sg_data # Absent))
          /\ Len(file_items') = Cardinality(WithRecord)
          /\ \E pos \in [DOMAIN file_items' -> WithRecord] :
                /\ \A i, j \in DOMAIN pos : i < j => pos[i] < pos[j]
                /\ \A i \in DOMAIN pos :
                      /\ file_items'[i].node_name = scene_objects[pos[i]].node_name
                      /\ file_items'[i].node_type = scene_objects[pos[i]].node_type
                      /\ file_items'[i].path = scene_objects[pos[i]].path
                      /\ file_items'[i].sg_data \in PublishedAt(catalog, scene_objects[pos[i]].path)]_vars

\* get_file_items returned the first and the third of three looked up
\* scene objects; the second one has no Published File.
C16_Witness ==
    /\ call.op = "get_file_items"
    /\ Len(scene_objects) = 3
    /\ scene_objects[1].sg_data # Absent
    /\ scene_objects[2].sg_data = Absent
    /\ scene_objects[3].sg_data # Absent
    /\ scene_objects[1].path # scene_objects[3].path
    /\ Len(file_items) = 2
    /\ file_items[1].node_name = "node1"
    /\ file_items[2].node_name = "node3"

----------------------------------------------------------------------------
(* A session in which requests to the site may fail.                       *)

\* The exception the ShotGrid client raises when a request fails.
ClientFault == "shotgun_api3.Fault"

\* hook get_latest_published_file while the site is down: find_one raises
\* once the query is built; execute_find_one only queues the query.
HookGetLatestPublishedFileSiteDown(item, data_retriever, cat) ==
    IF Truthy(data_retriever)
    THEN {[ret |-> o.ret, raised |-> "", issued |-> o.issued] :
             o \in HookGetLatestPublishedFile(item, data_retriever, cat)}
    ELSE {[ret |-> None, raised |-> ClientFault, issued |-> o.issued] :
             o \in HookGetLatestPublishedFile(item, data_retriever, cat)}

\* get_latest_published_file of the facade while the site is down, as it
\* would be if it caught the exception and answered with an empty result.
GetLatestPublishedFileSiteDownSuppressed(item, data_retriever, h, sc, cat) ==
    IF ~Truthy(item) \/ ~Truthy(item.sg_data)
    THEN {Done(item, sc, IF Truthy(data_retriever) THEN None ELSE EmptyDict, "", Absent, <<>>)}
    ELSE {Done(IF data_retriever = None
               THEN [item EXCEPT !.latest_published_file = None]
               ELSE item,
               sc, IF result.raised # "" THEN EmptyDict ELSE result.ret, "", Absent,
               result.issued) :
            result \in HookGetLatestPublishedFileSiteDown(item, data_retriever, cat)}

\* get_latest_published_file of the facade while the site is down: the
\* exception of the hook leaves the method before the item is written.
GetLatestPublishedFileSiteDown(item, data_retriever, h, sc, cat) ==
    IF ~Truthy(item) \/ ~Truthy(item.sg_data)
    THEN {Done(item, sc, IF Truthy(data_retriever) THEN None ELSE EmptyDict, "", Absent, <<>>)}
    ELSE {IF result.raised # ""
          THEN Done(item, sc, None, result.raised, Absent, result.issued)
          ELSE Done(IF data_retriever = None
                    THEN [item EXCEPT !.latest_published_file = result.ret]
                    ELSE item,
                    sc, result.ret, "", Absent, result.issued) :
            result \in HookGetLatestPublishedFileSiteDown(item, data_retriever, cat)}

\* get_published_files_for_items while the site is down: find raises once
\* the query is built; execute_find only queues the query.
GetPublishedFilesForItemsSiteDown(items, data_retriever, cat) ==
    IF items = <<>>
    THEN {[ret |-> IF Truthy(data_retriever) THEN None ELSE EmptyDict,
           raised |-> "", issued |-> <<>>]}
    ELSE IF Truthy(data_retriever)
    THEN {[ret |-> o.ret, raised |-> "", issued |-> o.issued] :
             o \in HookGetPublishedFilesForItems(items, data_retriever, cat)}
    ELSE {[ret |-> None, raised |-> ClientFault, issued |-> o.issued] :
             o \in HookGetPublishedFilesForItems(items, data_retriever, cat)}

\* get_published_files_for_items_data while the site is down: find_publish
\* raises before any items data is given a Published File.
GetPublishedFilesForItemsDataSiteDown(items_data, cat) ==
    IF items_data = <<>>
    THEN [items_data |-> items_data, ret |-> EmptyList, raised |-> "", issued |-> <<>>]
    ELSE [items_data |-> items_data, ret |-> None, raised |-> ClientFault,
          issued |-> <<FindPublishQuery([i \in DOMAIN items_data |-> items_data[i].path])>>]

\* get_published_file_history while the site is down: find raises before
\* the latest Published File of the item is written.
GetPublishedFileHistorySiteDown(item, sc, cat) ==
    IF ~Truthy(item.sg_data)
    THEN {Done(item, sc, EmptyList, "", Absent, <<>>)}
    ELSE {Done(item, sc, None, ClientFault, Absent, done.issued) :
             done \in GetPublishedFileHistory(item, sc, cat)}

\* The site goes down or comes back.
SiteChanges ==
    /\ site_down' = ~site_down
    /\ UNCHANGED <<heap, on_references_changed_cb, referencesChanged,
                   host, os_sep, catalog, scene, scene_objects, file_items, call>>

\* manager.get_published_files_for_items_data(items_data), site down
CallGetPublishedFilesForItemsDataSiteDown ==
    \E items_data \in {scene_objects, <<>>} :
        LET result == GetPublishedFilesForItemsDataSiteDown(items_data, catalog)
        IN /\ scene_objects' = IF items_data = <<>> THEN scene_objects
                               ELSE result.items_data
           /\ call' = [NoCall EXCEPT !.op = "get_published_files_for_items_data",
                                     !.items = [i \in DOMAIN items_data |-> i],
                                     !.ret = result.ret,
                                     !.raised = result.raised,
                                     !.issued = result.issued]
           /\ UNCHANGED <<objects, host, os_sep, catalog, scene, file_items>>

\* manager.get_latest_published_file(item, data_retriever), site down
CallGetLatestPublishedFileSiteDown ==
    \E i \in -1..Len(file_items), data_retriever \in {None, DataRetriever} :
        \E done \in GetLatestPublishedFileSiteDown(ItemAt(i, file_items, os_sep),
                                                   data_retriever, host, scene, catalog) :
            /\ file_items' = IF i < 1 THEN file_items
                             ELSE [file_items EXCEPT ![i] = done.item]
            /\ call' = [NoCall EXCEPT !.op = "get_latest_published_file",
                                      !.item = i,
                                      !.data_retriever = data_retriever,
                                      !.ret = done.ret,
                                      !.raised = done.raised,
                                      !.issued = done.issued,
                                      !.passed = done.item]
            /\ UNCHANGED <<objects, host, os_sep, catalog, scene, scene_objects>>

\* manager.get_published_files_for_items(items, data_retriever), site down
CallGetPublishedFilesForItemsSiteDown ==
    \E batch \in Batches(Len(file_items)), data_retriever \in {None, DataRetriever} :
        \E result \in GetPublishedFilesForItemsSiteDown(
                          [i \in DOMAIN batch |-> file_items[batch[i]]],
                          data_retriever, catalog) :
            /\ call' = [NoCall EXCEPT !.op = "get_published_files_for_items",
                                      !.items = batch,
                                      !.data_retriever = data_retriever,
                                      !.ret = result.ret,
                                      !.raised = result.raised,
                                      !.issued = result.issued]
            /\ UNCHANGED <<objects, host, os_sep, catalog, scene, scene_objects, file_items>>

\* manager.get_published_file_history(item), site down
CallGetPublishedFileHistorySiteDown ==
    \E i \in 1..Len(file_items) :
        \E done \in GetPublishedFileHistorySiteDown(file_items[i], scene, catalog) :
            /\ file_items' = [file_items EXCEPT ![i] = done.item]
            /\ call' = [NoCall EXCEPT !.op = "get_published_file_history",
                                      !.item = i,
                                      !.ret = done.ret,
                                      !.raised = done.raised,
                                      !.issued = done.issued]
            /\ UNCHANGED <<objects, host, os_sep, catalog, scene, scene_objects>>

\* A site holding the Published Files of one entity, which answers or not.
FailInit ==
    /\ host \in Hosts
    /\ os_sep \in {"/", "\\"}
    /\ catalog \in SubsetsUpTo({r \in SitePublishedFiles(os_sep) : r.entity = Link("Shot", 1)},
                               MaxCatalog)
    /\ scene \in [Nodes -> ScannedPaths(catalog, os_sep)]
    /\ scene_objects = <<>>
    /\ file_items = <<>>
    /\ call = NoCall
    /\ heap = <<>>
    /\ on_references_changed_cb = None
    /\ referencesChanged = <<>>
    /\ site_down \in BOOLEAN

FailNext ==
    \/ SiteChanges
    \/ ScanScene
    \/ CallGetFileItems
    \/ CallUpdateToLatestVersion
    \/ CallUpdateToSpecificVersion
    \/ ~site_down /\ CallGetPublishedFilesForItemsData
    \/ ~site_down /\ CallGetLatestPublishedFile
    \/ ~site_down /\ CallGetPublishedFilesForItems
    \/ ~site_down /\ CallGetPublishedFileHistory
    \/ site_down /\ CallGetPublishedFilesForItemsDataSiteDown
    \/ site_down /\ CallGetLatestPublishedFileSiteDown
    \/ site_down /\ CallGetPublishedFilesForItemsSiteDown
    \/ site_down /\ CallGetPublishedFileHistorySiteDown

FailSpec == FailInit /\ [][FailNext]_vars

\* This step is a synchronous lookup that needs the site, made while the
\* site is down.
LookupWhileDown ==
    /\ site_down /\ site_down'
    /\ call'.data_retriever = None
    /\ \/ call'.op = "get_published_files_for_items_data" /\ call'.items # <<>>
       \/ call'.op = "get_latest_published_file" /\ call'.item >= 1
       \/ call'.op = "get_published_files_for_items" /\ call'.items # <<>>
       \/ call'.op = "get_published_file_history"

\* What the scene hook does with the arguments of this step's update call.
UpdateOfStep ==
    HookUpdate(host, [ToDict(file_items[call'.item]) EXCEPT !.sg_data = call'.sg_data], scene)

\* This step is an update call that reaches the scene hook, whose update
\* raises.
UpdateFails ==
    /\ site_down' = site_down
    /\ \/ call'.op = "update_to_specific_version"
       \/ call'.op = "update_to_latest_version" /\ Truthy(call'.sg_data)
    /\ UpdateOfStep.raised # ""

\* C17: a synchronous lookup made while the site is down lets the client's
\* exception through after one query, returning nothing in its place; an
\* update whose scene hook raises lets that exception through, returning
\* nothing; and a call that lets an exception through leaves sg_data, path,
\* extra_data and latest_published_file of every item as they were.
C17_FailurePropagatesItemKept ==
    [][/\ LookupWhileDown =>
             /\ call'.raised = ClientFault
             /\ Len(call'.issued) = 1
             /\ call'.ret = None
       /\ UpdateFails =>
             /\ call'.raised = UpdateOfStep.raised
             /\ call'.ret = None
             /\ scene' = UpdateOfStep.scene
       /\ call'.raised # "" =>
             /\ file_items' = file_items
             /\ scene_objects' = scene_objects]_vars

\* A synchronous latest lookup failed on an item that holds the latest
\* Published File an earlier lookup found.
C17_Witness ==
    /\ call.op = "get_latest_published_file"
    /\ call.raised = ClientFault
    /\ call.item >= 1
    /\ file_items[call.item].latest_published_file # None
    /\ site_down

----------------------------------------------------------------------------
(* Updates the scene hooks decline.                                        *)

\* This step is an update call that reaches the scene hook with a node type
\* the host's hook does not update, with no Published File, or with a
\* Published File that has no local path.
UpdateToDecline ==
    /\ \/ call'.op = "update_to_specific_version"
       \/ call'.op = "update_to_latest_version" /\ Truthy(call'.sg_data)
    /\ call'.item \in DOMAIN file_items
    /\ \/ file_items[call'.item].node_type \notin RangeOf(ScannedNodeTypes(host))
       \/ ~Truthy(call'.sg_data)
       \/ ~Truthy(call'.sg_data.path)
       \/ ~Truthy(call'.sg_data.path.local_path)

\* C18: on each host, an update called with an unsupported node type, with
\* no Published File or with a Published File without a local path raises
\* nothing, gets a falsy value from the scene hook, changes no node of the
\* scene, leaves the FileItem as it was and returns False.
C18_DeclinedUpdateIsFalsy ==
    [][UpdateToDecline =>
          /\ call'.raised = ""
          /\ ~Truthy(call'.new_path)
          /\ scene' = scene
          /\ file_items' = file_items
          /\ call'.ret = PyFalse]_vars

----------------------------------------------------------------------------
(* A latest lookup followed by update_to_latest_version.                   *)

\* The previous call was a synchronous latest lookup of an item of the
\* list, and this step is update_to_latest_version of the same item, whose
\* node type the host's hook updates.
UpdateAfterLatestLookup ==
    /\ call.op = "get_latest_published_file"
    /\ call.item >= 1
    /\ call.data_retriever = None
    /\ call'.op = "update_to_latest_version"
    /\ call'.item = call.item
    /\ file_items[call.item].node_type \in RangeOf(ScannedNodeTypes(host))

\* C19: after a synchronous latest lookup of an item, update_to_latest_version
\* of the item returns True and leaves the item with the highest version of
\* the Published Files that share the item's project, entity, task, name and
\* type as sg_data, and with the path of that Published File, which is the
\* path its node holds, as path; a further synchronous latest lookup
\* returns the Published File the item then holds.
C19_LatestThenUpdateEndToEnd ==
    [][UpdateAfterLatestLookup =>
          LET before == file_items[call.item]
              after == file_items'[call.item]
          IN /\ call'.raised = ""
             /\ call'.ret = PyTrue
             /\ after.sg_data \in catalog
             /\ SameIdentity(after.sg_data, before.sg_data)
             /\ \A r \in catalog :
                   SameIdentity(r, before.sg_data) =>
                       r.version_number <= after.sg_data.version_number
             /\ after.path = scene'[NodeIndex(after.node_name)]
             /\ after.path = after.sg_data.path.local_path
             /\ \A done \in GetLatestPublishedFile(after, None, host, scene', catalog) :
                   done.ret = after.sg_data]_vars

----------------------------------------------------------------------------
(* The scene change callback of the VRED hook.                             *)

\* The functions a caller may register.
SceneChangeCallbacks == {"reload", "refresh"}

\* lambda nodes, cb=scene_change_callback: cb()
Lambda(scene_change_callback) == [type |-> "function", cb |-> scene_change_callback]

\* A VRED session in which no callback was registered.
CallbackInit ==
    /\ host = "tk-vred"
    /\ os_sep = "/"
    /\ catalog = {}
    /\ scene = [n \in Nodes |-> UnpublishedPath("/")]
    /\ scene_objects = <<>>
    /\ file_items = <<>>
    /\ call = NoCall
    /\ NoObjects

\* register_scene_change_callback(scene_change_callback)
RegisterSceneChangeCallback ==
    \E scene_change_callback \in SceneChangeCallbacks :
        /\ Len(heap) < MaxRegistered
        /\ heap' = Append(heap, Lambda(scene_change_callback))
        /\ on_references_changed_cb' = Ref(Len(heap) + 1)
        /\ referencesChanged' = Append(referencesChanged, on_references_changed_cb')
        /\ call' = [NoCall EXCEPT !.op = "register_scene_change_callback"]
        /\ UNCHANGED <<site_down, host, os_sep, catalog, scene, scene_objects, file_items>>

\* unregister_scene_change_callback()
UnregisterSceneChangeCallback ==
    /\ IF Truthy(on_references_changed_cb)
       THEN /\ referencesChanged' =
                  SelectSeq(referencesChanged, LAMBDA slot : slot # on_references_changed_cb)
            /\ on_references_changed_cb' = None
       ELSE UNCHANGED <<referencesChanged, on_references_changed_cb>>
    /\ call' = [NoCall EXCEPT !.op = "unregister_scene_change_callback"]
    /\ UNCHANGED <<heap, site_down, host, os_sep, catalog, scene, scene_objects, file_items>>

\* vrReferenceService emits referencesChanged: every connected slot runs,
\* and runs the callback it was made for.
EmitReferencesChanged ==
    /\ call' = [NoCall EXCEPT !.op = "referencesChanged",
                              !.items = [i \in DOMAIN referencesChanged |->
                                            heap[referencesChanged[i].addr].cb]]
    /\ UNCHANGED <<objects, host, os_sep, catalog, scene, scene_objects, file_items>>

CallbackNext ==
    \/ RegisterSceneChangeCallback
    \/ UnregisterSceneChangeCallback
    \/ EmitReferencesChanged

CallbackSpec == CallbackInit /\ [][CallbackNext]_vars

\* C20: once unregister_scene_change_callback has returned and until the
\* next registration, no slot remains connected to referencesChanged, and a
\* change of the scene's references runs no scene change callback.
C20_UnregisterDisconnectsAll ==
    on_references_changed_cb = None =>
        /\ referencesChanged = <<>>
        /\ call.op = "referencesChanged" => call.items = <<>>

----------------------------------------------------------------------------
(* The history lookup and the latest lookup of one item.                   *)

\* Versions and creation dates of one name and type, published in either
\* project under either entity, with or without a task.
HistoryRecords ==
    {PublishedFile(400 + (((((p.id - 1) * 2 + (e.id - 1)) * 2 + TaskIndex(t)) * MaxVersion
                             + (v - 1)) * MaxCreated) + c,
                   p, e, t, "a", Link("PublishedFileType", 1), v, c, None) :
        p \in Projects, e \in Entities, t \in {None, Link("Task", 1)},
        v \in 1..MaxVersion, c \in 1..MaxCreated}

\* A caller holding one item made for a Published File of the site.
HistoryInit ==
    /\ host = "tk-houdini"
    /\ os_sep = "/"
    /\ catalog \in SubsetsUpTo(HistoryRecords, MaxRecords)
    /\ scene = [n \in Nodes |-> UnpublishedPath("/")]
    /\ scene_objects = <<>>
    /\ file_items \in {<<ItemOf(r)>> : r \in catalog}
    /\ call = NoCall
    /\ NoObjects

HistoryNext ==
    \/ CallGetLatestPublishedFile
    \/ CallGetPublishedFileHistory

HistorySpec == HistoryInit /\ [][HistoryNext]_vars

\* The previous call and this one are the history lookup and the
\* synchronous latest lookup of the same item, in either order.
HistoryAndLatestInTurn ==
    /\ call.item >= 1
    /\ call'.item = call.item
    /\ call.data_retriever = None
    /\ call'.data_retriever = None
    /\ \/ /\ call.op = "get_published_file_history"
          /\ call'.op = "get_latest_published_file"
       \/ /\ call.op = "get_latest_published_file"
          /\ call'.op = "get_published_file_history"

\* C21: for an item made for a Published File of the site, the history
\* lookup and the synchronous latest lookup leave the same Published File in
\* item.latest_published_file, whichever of the two ran last.
C21_HistoryAndLatestAgree ==
    [][HistoryAndLatestInTurn =>
          file_items'[call.item].latest_published_file =
              file_items[call.item].latest_published_file]_vars

====
